---- MODULE Spec2Model ----
(***************************************************************************)
(* Model of myscript.py: the pair-based compiler.  One run of the button   *)
(* handler (lines 28-150): extract the uploaded zip into a temporary       *)
(* directory, scan it for <base>_e_detail.csv / <base>_e_sup.csv files,    *)
(* merge every complete pair, aggregate and sort each folder's pairs into  *)
(* a master file, report a summary and zip the clean output.               *)
(*                                                                         *)
(* File names are sequences of tokens: an opaque piece of text ("X") or    *)
(* one of the literal role suffixes.  A directory path is a sequence of    *)
(* directory names; a file path is [dir, name].  CSV cells are sequences   *)
(* of characters, so that reading, numeric coercion and writing are real   *)
(* conversions.  The column "ROW" stands for all columns other than        *)
(* PART_NO and carries the identity of a row.                              *)
(*                                                                         *)
(* pandas is modelled by what the calls of the script are documented to    *)
(* do: read_csv infers one dtype per column, concat takes the union of the *)
(* columns, to_numeric(errors='coerce') turns text that is no number into  *)
(* NaN, sort_values (default kind 'quicksort') gives an ascending order    *)
(* with NaN last and promises nothing about rows with equal keys.  The     *)
(* order in which os.walk lists a directory is the file system's.  The     *)
(* archives hold files only; a directory exists where a file lies in it.   *)
(***************************************************************************)
EXTENDS Integers, Sequences, FiniteSets, TLC

\* ------------------------------------------------------------------ bounds
MaxRows == 2
MaxNameLen == 3

\* --------------------------------------------------------- literal strings
DetailSuffix == "_e_detail.csv"
SupSuffix == "_e_sup.csv"
CompiledSuffix == "_COMPILED.csv"
MasterSuffix == "_compiled_file.csv"
CleanDirName == "clean_output_for_zip"

\* ------------------------------------------------------------ small helpers
Put(f, key, val) == [x \in (DOMAIN f) \cup {key} |-> IF x = key THEN val ELSE f[x]]

Last(s) == s[Len(s)]

RECURSIVE Perms(_)
Perms(S) == IF S = {} THEN {<< >>}
            ELSE UNION {{<<x>> \o p : p \in Perms(S \ {x})} : x \in S}

RECURSIVE SeqsUpTo(_, _)
SeqsUpTo(S, n) == IF n = 0 THEN {<< >>}
                  ELSE SeqsUpTo(S, n - 1) \cup
                       {s \o <<x>> : s \in {t \in SeqsUpTo(S, n - 1) : Len(t) = n - 1}, x \in S}

RECURSIVE SumSeq(_)
SumSeq(s) == IF s = << >> THEN 0 ELSE s[1] + SumSeq(Tail(s))

\* ----------------------------------------------------- str methods (l.50-54)
\* filename.endswith(suffix)
endswith(filename, suffix) == Len(filename) > 0 /\ Last(filename) = suffix

\* filename.replace(suffix, ''): every occurrence is removed, not only the last
replace(filename, suffix) == SelectSeq(filename, LAMBDA t : t # suffix)

\* os.path.basename(folder_path)
basename(path) == Last(path)

\* ------------------------------------------------------------ pandas values
NaN == [k |-> "nan", v |-> 0, s |-> << >>]
IntV(n) == [k |-> "int", v |-> n, s |-> << >>]
FloatV(n) == [k |-> "float", v |-> n, s |-> << >>]
StrV(c) == [k |-> "str", v |-> 0, s |-> c]

DigitChars == {"0", "1", "2", "3", "4", "5", "6", "7", "8", "9"}

DigitVal(ch) == CASE ch = "0" -> 0 [] ch = "1" -> 1 [] ch = "2" -> 2 [] ch = "3" -> 3
                  [] ch = "4" -> 4 [] ch = "5" -> 5 [] ch = "6" -> 6 [] ch = "7" -> 7
                  [] ch = "8" -> 8 [] ch = "9" -> 9

DigitChar(d) == CASE d = 0 -> "0" [] d = 1 -> "1" [] d = 2 -> "2" [] d = 3 -> "3"
                  [] d = 4 -> "4" [] d = 5 -> "5" [] d = 6 -> "6" [] d = 7 -> "7"
                  [] d = 8 -> "8" [] d = 9 -> "9"

IsIntText(c) == Len(c) > 0 /\ \A n \in 1..Len(c) : c[n] \in DigitChars

IsFloatText(c) == /\ Len(c) >= 3
                  /\ c[Len(c) - 1] = "." /\ c[Len(c)] = "0"
                  /\ IsIntText(SubSeq(c, 1, Len(c) - 2))

IsNumText(c) == IsIntText(c) \/ IsFloatText(c)

RECURSIVE ParseInt(_)
ParseInt(c) == IF Len(c) = 0 THEN 0
               ELSE 10 * ParseInt(SubSeq(c, 1, Len(c) - 1)) + DigitVal(Last(c))

ParseNum(c) == IF IsIntText(c) THEN ParseInt(c) ELSE ParseInt(SubSeq(c, 1, Len(c) - 2))

RECURSIVE Digits(_)
Digits(n) == IF n < 10 THEN <<DigitChar(n)>> ELSE Digits(n \div 10) \o <<DigitChar(n % 10)>>

\* how to_csv writes one value
FormatValue(x) == CASE x.k = "int" -> Digits(x.v)
                    [] x.k = "float" -> Digits(x.v) \o <<".", "0">>
                    [] x.k = "nan" -> << >>
                    [] x.k = "str" -> x.s

\* numpy's common dtype of a column: without text, one float or missing value
\* makes every integer a float
Upcast(rows) ==
  LET kinds == {rows[n].PART_NO.k : n \in 1..Len(rows)}
  IN IF "str" \notin kinds /\ kinds \cap {"nan", "float"} # {}
     THEN [n \in 1..Len(rows) |->
             IF rows[n].PART_NO.k = "int"
             THEN [rows[n] EXCEPT !.PART_NO = FloatV(rows[n].PART_NO.v)]
             ELSE rows[n]]
     ELSE rows

\* A file on disk is a set of column names and rows of cells; a file without
\* columns cannot be parsed (pandas raises EmptyDataError).

\* read_csv as it would be if an unreadable file were taken for an empty frame
read_csv_lenient(t) ==
  [ok |-> TRUE,
   columns |-> t.columns,
   rows |-> [n \in 1..Len(t.rows) |-> [ROW |-> t.rows[n].ROW, PART_NO |-> NaN]]]

\* pd.read_csv(path, low_memory=False): the dtype is inferred over the whole column
read_csv(t) ==
  LET cells == [n \in 1..Len(t.rows) |-> t.rows[n].PART_NO]
      allInt == \A n \in 1..Len(cells) : IsIntText(cells[n])
      allNum == \A n \in 1..Len(cells) : cells[n] = << >> \/ IsNumText(cells[n])
      val(c) == IF "PART_NO" \notin t.columns \/ c = << >> THEN NaN
                ELSE IF allInt THEN IntV(ParseInt(c))
                ELSE IF allNum THEN FloatV(ParseNum(c))
                ELSE StrV(c)
  IN [ok |-> t.columns # {},
      columns |-> t.columns,
      rows |-> [n \in 1..Len(t.rows) |-> [ROW |-> t.rows[n].ROW, PART_NO |-> val(cells[n])]]]

\* df.to_csv(path, index=False)
to_csv(df) ==
  [columns |-> df.columns,
   rows |-> [n \in 1..Len(df.rows) |->
               [ROW |-> df.rows[n].ROW,
                PART_NO |-> IF "PART_NO" \in df.columns
                            THEN FormatValue(df.rows[n].PART_NO) ELSE << >>]]]

\* pd.concat(frames, ignore_index=True): rows in list order, union of columns,
\* NaN where a frame lacks the column
RECURSIVE ConcatRows(_)
ConcatRows(frames) ==
  IF frames = << >> THEN << >>
  ELSE [n \in 1..Len(frames[1].rows) |->
          IF "PART_NO" \in frames[1].columns THEN frames[1].rows[n]
          ELSE [frames[1].rows[n] EXCEPT !.PART_NO = NaN]]
       \o ConcatRows(Tail(frames))

\* concat as it would be if rows without a PART_NO value were dropped
concat_dropna(frames) ==
  [columns |-> UNION {frames[n].columns : n \in 1..Len(frames)},
   rows |-> SelectSeq(Upcast(ConcatRows(frames)),
                      LAMBDA r : (\A n \in 1..Len(frames) : "PART_NO" \notin frames[n].columns)
                                 \/ r.PART_NO.k # "nan")]

concat(frames) ==
  [columns |-> UNION {frames[n].columns : n \in 1..Len(frames)},
   rows |-> Upcast(ConcatRows(frames))]

\* pd.to_numeric(column, errors='coerce')
to_numeric(rows) ==
  Upcast([n \in 1..Len(rows) |->
            LET x == rows[n].PART_NO
            IN IF x.k # "str" THEN rows[n]
               ELSE [rows[n] EXCEPT !.PART_NO =
                       IF IsIntText(x.s) THEN IntV(ParseInt(x.s))
                       ELSE IF IsFloatText(x.s) THEN FloatV(ParseNum(x.s))
                       ELSE NaN]])


\* sort_values as it would be with na_position='first'
sort_values_na_first(rows) ==
  LET index == [n \in 1..Len(rows) |-> n]
      valid == SelectSeq(index, LAMBDA n : rows[n].PART_NO.k # "nan")
      nans == SelectSeq(index, LAMBDA n : rows[n].PART_NO.k = "nan")
      orders == {p \in Perms({valid[n] : n \in 1..Len(valid)}) :
                   \A a, b \in 1..Len(p) :
                     a < b => rows[p[a]].PART_NO.v <= rows[p[b]].PART_NO.v}
  IN {[n \in 1..Len(rows) |-> rows[(nans \o p)[n]]] : p \in orders}

\* df.sort_values(by='PART_NO', ascending=True): kind defaults to 'quicksort',
\* which is not stable, and na_position to 'last'.  The non-NaN rows come out
\* in some ascending order, the NaN rows follow in their original order.
sort_values(rows) ==
  LET index == [n \in 1..Len(rows) |-> n]
      valid == SelectSeq(index, LAMBDA n : rows[n].PART_NO.k # "nan")
      nans == SelectSeq(index, LAMBDA n : rows[n].PART_NO.k = "nan")
      orders == {p \in Perms({valid[n] : n \in 1..Len(valid)}) :
                   \A a, b \in 1..Len(p) :
                     a < b => rows[p[a]].PART_NO.v <= rows[p[b]].PART_NO.v}
  IN {[n \in 1..Len(rows) |-> rows[(p \o nans)[n]]] : p \in orders}


\* ------------------------------------------------------------------- state
VARIABLES
  uploaded_zip,              \* the upload: [valid, files], files: path -> file
  temp_dir,                  \* name of the TemporaryDirectory (l.29)
  pc,                        \* position of the run
  disk,                      \* files below temp_dir except the clean output: path -> file
  base_path,                 \* l.39
  file_map,                  \* l.47: sequence (insertion order) of [root, bases]
  total_pairs_found,         \* l.57
  i,                         \* l.69: index of the folder being processed
  k,                         \* l.78: index of the base being processed
  compiled_pair_files_paths, \* l.74
  pairs_in_folder,           \* l.75
  summary_data,              \* l.67
  clean_output,              \* files below clean_output_path, by folder_name
  log,                       \* st.error / st.warning messages
  metrics,                   \* l.130-131
  zip_buffer                 \* l.136: archive name -> file

vars == <<uploaded_zip, temp_dir, pc, disk, base_path, file_map, total_pairs_found, i, k,
          compiled_pair_files_paths, pairs_in_folder, summary_data, clean_output, log,
          metrics, zip_buffer>>

NoFiles == << >>
NoMetrics == [folders_with_pairs |-> 0, grand_total_rows |-> 0]
Msg(kind, folder, base) == [kind |-> kind, folder |-> folder, base |-> base]

\* ------------------------------------------------------------------ inputs
\* the content of an uploaded file: its columns and the PART_NO cell of each row
NoPart(n) == [columns |-> {"ROW"}, cells |-> [j \in 1..n |-> << >>]]
WithPart(cells) == [columns |-> {"ROW", "PART_NO"}, cells |-> cells]
Broken == [columns |-> {}, cells |-> << >>]

Entry(dir, name, content) == [dir |-> dir, name |-> name, content |-> content]

MkFile(e) ==
  [columns |-> e.content.columns,
   rows |-> [n \in 1..Len(e.content.cells) |->
               [ROW |-> <<e.dir, e.name, n>>, PART_NO |-> e.content.cells[n]]]]

Archive(entries) ==
  [valid |-> TRUE,
   files |-> [p \in {[dir |-> e.dir, name |-> e.name] : e \in entries} |->
                MkFile(CHOOSE e \in entries : e.dir = p.dir /\ e.name = p.name)]]

XD == <<"X", DetailSuffix>>
XS == <<"X", SupSuffix>>
YD == <<"Y", DetailSuffix>>
YS == <<"Y", SupSuffix>>

Cells == {<<"2">>, <<"1", "0">>, <<"x">>}

Contents(n) == {Broken} \cup {NoPart(j) : j \in 0..n}
               \cup {WithPart(c) : c \in SeqsUpTo(Cells, n)}

SmallContents == {Broken, NoPart(1), WithPart(<< <<"2">> >>)}

\* archives every family holds: a corrupt zip, an empty one, one without
\* candidate files and one whose top level already has the clean output's name
CommonArchives ==
  {[valid |-> FALSE, files |-> NoFiles],
   Archive({}),
   Archive({Entry(<<"a">>, <<"a", MasterSuffix>>, NoPart(1))}),
   Archive({Entry(<<CleanDirName>>, XD, NoPart(1)), Entry(<<"a">>, XD, NoPart(1))})}

\* the example of the spec: PART_NO [3,1] in the detail file, [2,5,4] in the supplement
ExampleArchive ==
  Archive({Entry(<<"a">>, XD, WithPart(<< <<"3">>, <<"1">> >>)),
           Entry(<<"a">>, XS, WithPart(<< <<"2">>, <<"5">>, <<"4">> >>))})

\* one folder, one or two pairs, all kinds of cells
RowArchives ==
  {ExampleArchive} \cup
  {Archive({Entry(<<"a">>, XD, c1), Entry(<<"a">>, XS, c2)}) : c1, c2 \in Contents(MaxRows)}
  \cup
  {Archive({Entry(<<"a">>, XD, c[1]), Entry(<<"a">>, XS, c[2]),
            Entry(<<"a">>, YD, c[3]), Entry(<<"a">>, YS, c[4])}) :
     c \in Contents(MaxRows - 1) \X Contents(MaxRows - 1) \X SmallContents \X SmallContents}

\* two folders under a wrapper, all kinds of file names
NameTokens == {"X", DetailSuffix, SupSuffix}
FileNames == SeqsUpTo(NameTokens, MaxNameLen) \ {<< >>}

NameArchives ==
  {Archive({Entry(<<"W", "a">>, n, NoPart(1)) : n \in A} \cup
           {Entry(<<"W", "b">>, n, NoPart(1)) : n \in B}) :
     A \in {{}} \cup {{n1, n2} : n1, n2 \in FileNames},
     B \in {{}, {XD}, {XS}}}

\* a tree of folders, two of them with the same name, with or without a wrapper
TreeDirs == <<<< >>, <<"a", "x">>, <<"b", "x">>, <<CleanDirName>>>>
FolderKinds == {"none", "lonely", "pair", "broken", "mixed"}

FolderEntries(dir, kind) ==
  CASE kind = "none" -> {}
    [] kind = "lonely" -> {Entry(dir, YD, NoPart(1))}
    [] kind = "pair" -> {Entry(dir, XD, WithPart(<< <<"2">> >>)), Entry(dir, XS, NoPart(1))}
    [] kind = "broken" -> {Entry(dir, XD, Broken), Entry(dir, XS, NoPart(1))}
    [] kind = "mixed" -> {Entry(dir, XD, NoPart(1)), Entry(dir, XS, Broken),
                          Entry(dir, YD, WithPart(<< <<"1", "0">> >>)), Entry(dir, YS, NoPart(1))}

TreeArchives ==
  {Archive(UNION {FolderEntries(w \o TreeDirs[n], kinds[n]) : n \in 1..Len(TreeDirs)}) :
     kinds \in [1..Len(TreeDirs) -> FolderKinds], w \in {<< >>, <<"W">>}}

TempNames == {"tmpk3x9", "tmp7fq2"}

\* ----------------------------------------------------------------- helpers
IsPrefix(a, b) == Len(a) <= Len(b) /\ SubSeq(b, 1, Len(a)) = a

\* length of the longest common prefix of two paths
LCP(a, b) == Cardinality({n \in 1..Len(a) : n <= Len(b) /\ SubSeq(a, 1, n) = SubSeq(b, 1, n)})

\* os.listdir(temp_dir): the names of the top-level directories and files
TopDirs(d) == {p.dir[2] : p \in {q \in DOMAIN d : Len(q.dir) >= 2}}
TopFiles(d) == {p.name : p \in {q \in DOMAIN d : Len(q.dir) = 1}}

\* l.39: descend into a single top-level directory
BasePath(d, tmp) ==
  IF Cardinality(TopDirs(d)) = 1 /\ TopFiles(d) = {}
  THEN <<tmp, CHOOSE n \in TopDirs(d) : TRUE>>
  ELSE <<tmp>>

\* os.walk(base_path) is top-down: a directory comes before the directories
\* below it and a subtree is walked without interruption; the order of the
\* entries of one directory is the file system's
WalkOrders(dirs) ==
  {p \in Perms(dirs) :
     /\ \A x, y \in 1..Len(p) : x < y => ~IsPrefix(p[y], p[x])
     /\ \A x, y, z \in 1..Len(p) : (x < y /\ y < z) => LCP(p[x], p[z]) <= LCP(p[x], p[y])}

\* l.50-55: one file of the walk enters file_map
FolderIndex(fm, root) == IF \E n \in 1..Len(fm) : fm[n].root = root
                         THEN CHOOSE n \in 1..Len(fm) : fm[n].root = root ELSE 0

BaseIndex(bases, base) == IF \E n \in 1..Len(bases) : bases[n].base = base
                          THEN CHOOSE n \in 1..Len(bases) : bases[n].base = base ELSE 0

SetRole(fm, root, base, role, path) ==
  LET f == FolderIndex(fm, root)
      fm1 == IF f = 0 THEN Append(fm, [root |-> root, bases |-> << >>]) ELSE fm
      f1 == IF f = 0 THEN Len(fm1) ELSE f
      b == BaseIndex(fm1[f1].bases, base)
      bases1 == IF b = 0 THEN Append(fm1[f1].bases, [base |-> base, paths |-> (role :> path)])
                ELSE [fm1[f1].bases EXCEPT ![b].paths = Put(@, role, path)]
  IN [fm1 EXCEPT ![f1].bases = bases1]

ScanFile(fm, path) ==
  IF endswith(path.name, DetailSuffix)
  THEN SetRole(fm, path.dir, replace(path.name, DetailSuffix), "detail", path)
  ELSE IF endswith(path.name, SupSuffix)
  THEN SetRole(fm, path.dir, replace(path.name, SupSuffix), "sup", path)
  ELSE fm

RECURSIVE ScanWalk(_, _)
ScanWalk(fm, walk) == IF walk = << >> THEN fm
                      ELSE ScanWalk(ScanFile(fm, walk[1]), Tail(walk))

\* what the walk of one directory leaves in file_map, for every order in which
\* the file system can list its files
FolderMaps(d, dir) ==
  {ScanWalk(<< >>, w) : w \in Perms({q \in DOMAIN d : q.dir = dir})}

\* l.48-55: the walk visits the directories in the order dorder; the files of a
\* directory are scanned together, so file_map grows one directory at a time
RECURSIVE FileMaps(_, _)
FileMaps(d, dorder) ==
  IF dorder = << >> THEN {<< >>}
  ELSE {fm \o rest : fm \in FolderMaps(d, dorder[1]), rest \in FileMaps(d, Tail(dorder))}

ScanResults(d, base) ==
  UNION {FileMaps(d, o) : o \in WalkOrders({q.dir : q \in {r \in DOMAIN d : IsPrefix(base, r.dir)}})}

\* l.79: 'detail' in paths and 'sup' in paths
IsPair(paths) == "detail" \in DOMAIN paths /\ "sup" \in DOMAIN paths

\* l.57
CountPairs(fm) ==
  SumSeq([f \in 1..Len(fm) |->
            Cardinality({b \in 1..Len(fm[f].bases) : IsPair(fm[f].bases[b].paths)})])

\* l.65
folders_to_process == [f \in 1..Len(file_map) |-> file_map[f].root]

\* ------------------------------------------------------------------ actions
InitWith(archives, temps) ==
  /\ uploaded_zip \in archives
  /\ temp_dir \in temps
  /\ pc = "start"
  /\ disk = NoFiles
  /\ base_path = << >>
  /\ file_map = << >>
  /\ total_pairs_found = 0
  /\ i = 0
  /\ k = 0
  /\ compiled_pair_files_paths = << >>
  /\ pairs_in_folder = 0
  /\ summary_data = << >>
  /\ clean_output = NoFiles
  /\ log = {}
  /\ metrics = NoMetrics
  /\ zip_buffer = NoFiles

\* l.32-34: zip_ref.extractall(temp_dir)
Extract ==
  /\ pc = "start"
  /\ uploaded_zip.valid
  /\ disk' = [p \in {[dir |-> <<temp_dir>> \o q.dir, name |-> q.name] :
                       q \in DOMAIN uploaded_zip.files} |->
                uploaded_zip.files[[dir |-> Tail(p.dir), name |-> p.name]]]
  /\ pc' = "extracted"
  /\ UNCHANGED <<uploaded_zip, temp_dir, base_path, file_map, total_pairs_found, i, k,
                 compiled_pair_files_paths, pairs_in_folder, summary_data, clean_output,
                 log, metrics, zip_buffer>>

\* l.35-36: st.error(...); st.stop()
ExtractFails ==
  /\ pc = "start"
  /\ ~uploaded_zip.valid
  /\ log' = log \cup {Msg("extract_error", << >>, << >>)}
  /\ pc' = "stopped"
  /\ UNCHANGED <<uploaded_zip, temp_dir, disk, base_path, file_map, total_pairs_found, i, k,
                 compiled_pair_files_paths, pairs_in_folder, summary_data, clean_output,
                 metrics, zip_buffer>>

\* l.42: os.makedirs raises FileExistsError when the name is taken
CleanPathTaken == CleanDirName \in TopDirs(disk) \/ <<CleanDirName>> \in TopFiles(disk)

\* l.38-42
Setup ==
  /\ pc = "extracted"
  /\ ~CleanPathTaken
  /\ base_path' = BasePath(disk, temp_dir)
  /\ pc' = "scanning"
  /\ UNCHANGED <<uploaded_zip, temp_dir, disk, file_map, total_pairs_found, i, k,
                 compiled_pair_files_paths, pairs_in_folder, summary_data, clean_output,
                 log, metrics, zip_buffer>>

\* an uncaught exception ends the script; leaving the with block of l.29
\* removes temp_dir and all that is below it
Raise(at) ==
  /\ pc' = "crashed"
  /\ log' = log \cup {Msg(at, << >>, << >>)}
  /\ disk' = NoFiles
  /\ clean_output' = NoFiles
  /\ UNCHANGED <<uploaded_zip, temp_dir, base_path, file_map, total_pairs_found, i, k,
                 compiled_pair_files_paths, pairs_in_folder, summary_data, metrics,
                 zip_buffer>>

SetupRaises ==
  /\ pc = "extracted"
  /\ CleanPathTaken
  /\ Raise("FileExistsError")

\* l.47-67
Scan ==
  /\ pc = "scanning"
  /\ \E fm \in ScanResults(disk, base_path) :
       /\ file_map' = fm
       /\ total_pairs_found' = CountPairs(file_map')
       /\ pc' = IF file_map' = << >> THEN "reporting" ELSE "merging"
       /\ i' = IF file_map' = << >> THEN 0 ELSE 1
       /\ k' = IF file_map' = << >> THEN 0 ELSE 1
  /\ UNCHANGED <<uploaded_zip, temp_dir, disk, base_path, compiled_pair_files_paths,
                 pairs_in_folder, summary_data, clean_output, log, metrics, zip_buffer>>

CompiledPath(folder_path, base_name) ==
  [dir |-> folder_path, name |-> base_name \o <<CompiledSuffix>>]

\* l.78-91: one turn of the loop over the bases of the folder
StepA ==
  /\ pc = "merging"
  /\ LET folder_path == folders_to_process[i]
         base_name == file_map[i].bases[k].base
         paths == file_map[i].bases[k].paths
         df_detail == read_csv(disk[paths["detail"]])
         df_sup == read_csv(disk[paths["sup"]])
         compiled_pair_df == concat(<<df_detail, df_sup>>)
         output_path == CompiledPath(folder_path, base_name)
     IN IF IsPair(paths)
        THEN /\ pairs_in_folder' = pairs_in_folder + 1
             /\ IF df_detail.ok /\ df_sup.ok
                THEN /\ disk' = Put(disk, output_path, to_csv(compiled_pair_df))
                     /\ compiled_pair_files_paths' = Append(compiled_pair_files_paths, output_path)
                     /\ log' = log
                ELSE /\ log' = log \cup {Msg("could_not_process_pair", folder_path, base_name)}
                     /\ UNCHANGED <<disk, compiled_pair_files_paths>>
        ELSE UNCHANGED <<pairs_in_folder, disk, compiled_pair_files_paths, log>>
  /\ IF k < Len(file_map[i].bases)
     THEN k' = k + 1 /\ pc' = "merging"
     ELSE k' = k /\ pc' = "aggregating"
  /\ UNCHANGED <<uploaded_zip, temp_dir, base_path, file_map, total_pairs_found, i,
                 summary_data, clean_output, metrics, zip_buffer>>

\* the summary row as it would be if it reported the global pair count of l.57
SummaryRow_total(folder_name, pairs, rows) ==
  [Folder |-> folder_name, PairsFound |-> total_pairs_found, MasterRows |-> rows]

SummaryRow(folder_name, pairs, rows) ==
  [Folder |-> folder_name, PairsFound |-> pairs, MasterRows |-> rows]

\* l.120 and the head of the next turn of the loop over the folders (l.69-75)
NextFolder(folder_name, master_file_rows) ==
  /\ summary_data' = Append(summary_data, SummaryRow(folder_name, pairs_in_folder, master_file_rows))
  /\ IF i < Len(file_map)
     THEN /\ i' = i + 1 /\ k' = 1 /\ pc' = "merging"
          /\ compiled_pair_files_paths' = << >>
          /\ pairs_in_folder' = 0
     ELSE /\ i' = i /\ k' = k /\ pc' = "reporting"
          /\ UNCHANGED <<compiled_pair_files_paths, pairs_in_folder>>

\* l.101-107: the frames the sort can leave
Sorted(df) ==
  IF "PART_NO" \in df.columns
  THEN {[columns |-> df.columns, rows |-> r] : r \in sort_values(to_numeric(df.rows))}
  ELSE {df}

\* l.94-120
StepB ==
  /\ pc = "aggregating"
  /\ LET folder_path == folders_to_process[i]
         folder_name == basename(folder_path)
         master_df_list == [n \in 1..Len(compiled_pair_files_paths) |->
                              read_csv(disk[compiled_pair_files_paths[n]])]
         concatenated == concat(master_df_list)
     IN IF compiled_pair_files_paths # << >>
        THEN \E final_master_df \in Sorted(concatenated) :
               /\ log' = IF "PART_NO" \in concatenated.columns THEN log
                         ELSE log \cup {Msg("part_no_not_found", folder_path, << >>)}
               /\ clean_output' = Put(clean_output, folder_name,
                                      [src |-> folder_path, file |-> to_csv(final_master_df)])
               /\ NextFolder(folder_name, Len(final_master_df.rows))
        ELSE /\ NextFolder(folder_name, 0)
             /\ UNCHANGED <<log, clean_output>>
  /\ UNCHANGED <<uploaded_zip, temp_dir, disk, base_path, file_map, total_pairs_found,
                 metrics, zip_buffer>>

\* l.127-131
Report ==
  /\ pc = "reporting"
  /\ summary_data # << >>
  /\ metrics' = [folders_with_pairs |->
                   Cardinality({n \in 1..Len(summary_data) : summary_data[n].PairsFound > 0}),
                 grand_total_rows |->
                   SumSeq([n \in 1..Len(summary_data) |-> summary_data[n].MasterRows])]
  /\ pc' = "packaging"
  /\ UNCHANGED <<uploaded_zip, temp_dir, disk, base_path, file_map, total_pairs_found, i, k,
                 compiled_pair_files_paths, pairs_in_folder, summary_data, clean_output,
                 log, zip_buffer>>

\* l.130: pd.DataFrame([]) has no column 'Pairs Found'; the lookup raises KeyError
ReportRaises ==
  /\ pc = "reporting"
  /\ summary_data = << >>
  /\ Raise("KeyError")

\* os.path.relpath of a master file below clean_output_path (l.111-114, l.141)
ArchiveName(folder_name) == <<folder_name, <<folder_name, MasterSuffix>>>>

\* l.135-150: the clean output is zipped into memory and offered for download
Package ==
  /\ pc = "packaging"
  /\ zip_buffer' = [a \in {ArchiveName(n) : n \in DOMAIN clean_output} |->
                      clean_output[a[1]].file]
  /\ pc' = "download"
  /\ UNCHANGED <<uploaded_zip, temp_dir, disk, base_path, file_map, total_pairs_found, i, k,
                 compiled_pair_files_paths, pairs_in_folder, summary_data, clean_output,
                 log, metrics>>

\* the end of the with block of l.29: temp_dir is removed, zip_buffer stays
Cleanup ==
  /\ pc = "download"
  /\ disk' = NoFiles
  /\ clean_output' = NoFiles
  /\ pc' = "done"
  /\ UNCHANGED <<uploaded_zip, temp_dir, base_path, file_map, total_pairs_found, i, k,
                 compiled_pair_files_paths, pairs_in_folder, summary_data, log, metrics,
                 zip_buffer>>

Next == \/ Extract \/ ExtractFails \/ Setup \/ SetupRaises \/ Scan
        \/ StepA \/ StepB \/ Report \/ ReportRaises \/ Package \/ Cleanup

InitRows == InitWith(CommonArchives \cup RowArchives, {"tmpk3x9"})
InitNames == InitWith(CommonArchives \cup NameArchives, {"tmpk3x9"})
InitTree == InitWith(CommonArchives \cup TreeArchives, TempNames)

SpecRows == InitRows /\ [][Next]_vars
SpecNames == InitNames /\ [][Next]_vars
SpecTree == InitTree /\ [][Next]_vars


\* ------------------------------------------------- vocabulary of the claims
\* the uploaded file behind a path of the extracted tree
Src(path) == uploaded_zip.files[[dir |-> Tail(path.dir), name |-> path.name]]

InputPaths == {[dir |-> <<temp_dir>> \o q.dir, name |-> q.name] : q \in DOMAIN uploaded_zip.files}

RowIds(file) == [n \in 1..Len(file.rows) |-> file.rows[n].ROW]

IdSet(ids) == {ids[n] : n \in 1..Len(ids)}

\* the file name with its last token, the role suffix, taken off the end
Stem(name) == SubSeq(name, 1, Len(name) - 1)

Scanned == pc \in {"merging", "aggregating", "reporting", "packaging", "download", "done"}
Finished == pc \in {"reporting", "packaging", "download", "done"}
\* temp_dir still exists
OnDisk == pc \notin {"stopped", "crashed", "done"}

\* the folder's base b has been through Step A
Processed(f, b) == \/ Finished
                   \/ pc \in {"merging", "aggregating"} /\ f < i
                   \/ pc = "merging" /\ f = i /\ b < k
                   \/ pc = "aggregating" /\ f = i

Parses(path) == Src(path).columns # {}
FailedPair(e) == IsPair(e.paths) /\ ~(Parses(e.paths["detail"]) /\ Parses(e.paths["sup"]))
GoodPair(e) == IsPair(e.paths) /\ Parses(e.paths["detail"]) /\ Parses(e.paths["sup"])

\* rows of the folder's parseable complete pairs in concatenation order: pairs
\* in the order they are processed, detail rows before supplement rows
RECURSIVE PairIds(_)
PairIds(bases) ==
  IF bases = << >> THEN << >>
  ELSE (IF GoodPair(bases[1])
        THEN RowIds(Src(bases[1].paths["detail"])) \o RowIds(Src(bases[1].paths["sup"]))
        ELSE << >>) \o PairIds(Tail(bases))

ConcatIds(f) == PairIds(file_map[f].bases)

\* row counts of the compiled-pair files the folder has on disk
CompiledRows(f) ==
  [b \in 1..Len(file_map[f].bases) |->
     LET cp == CompiledPath(file_map[f].root, file_map[f].bases[b].base)
     IN IF cp \in DOMAIN disk THEN Len(disk[cp].rows) ELSE 0]

\* the PART_NO cell the row had in the uploaded file ("" without the column)
SrcCell(id) == LET file == uploaded_zip.files[[dir |-> id[1], name |-> id[2]]]
               IN IF "PART_NO" \in file.columns THEN file.rows[id[3]].PART_NO ELSE << >>

Position(ids, id) == CHOOSE n \in 1..Len(ids) : ids[n] = id

\* number of rows in the archive files named in S
RECURSIVE ZipRows(_)
ZipRows(S) == IF S = {} THEN 0
              ELSE LET a == CHOOSE x \in S : TRUE
                   IN Len(zip_buffer[a].rows) + ZipRows(S \ {a})

MasterOf(f) == clean_output[basename(file_map[f].root)]
HasOwnMaster(f) == /\ basename(file_map[f].root) \in DOMAIN clean_output
                   /\ MasterOf(f).src = file_map[f].root

\* ------------------------------------------------------------------ claims
\* C1: a detail file and a supplement file are treated as one pair exactly when
\* they lie in the same directory and their names are equal once the role
\* suffix is stripped from the end; files with neither suffix enter no group.
C1_PairIffSameStem ==
  Scanned =>
    /\ \A d, s \in InputPaths :
         (endswith(d.name, DetailSuffix) /\ endswith(s.name, SupSuffix)) =>
           ((\E f \in 1..Len(file_map) : \E b \in 1..Len(file_map[f].bases) :
                /\ IsPair(file_map[f].bases[b].paths)
                /\ file_map[f].bases[b].paths["detail"] = d
                /\ file_map[f].bases[b].paths["sup"] = s)
            <=> (d.dir = s.dir /\ Stem(d.name) = Stem(s.name)))
    /\ \A f \in 1..Len(file_map) : \A b \in 1..Len(file_map[f].bases) :
         \A r \in DOMAIN file_map[f].bases[b].paths :
           LET q == file_map[f].bases[b].paths[r]
           IN endswith(q.name, DetailSuffix) \/ endswith(q.name, SupSuffix)

\* C2: a compiled pair holds the detail rows followed by the supplement rows;
\* the master row count of a folder's summary row is the sum of the row counts
\* of the folder's compiled pairs, and the master holds exactly those rows,
\* sorted or not.
C2_RowConservation ==
  /\ \A f \in 1..Len(file_map) : \A b \in 1..Len(file_map[f].bases) :
       LET e == file_map[f].bases[b]
           cp == CompiledPath(file_map[f].root, e.base)
       IN cp \in DOMAIN disk =>
            /\ IsPair(e.paths)
            /\ RowIds(disk[cp]) = RowIds(Src(e.paths["detail"])) \o RowIds(Src(e.paths["sup"]))
  /\ \A f \in 1..Len(summary_data) :
       /\ OnDisk => summary_data[f].MasterRows = SumSeq(CompiledRows(f))
       /\ HasOwnMaster(f) =>
            /\ Len(MasterOf(f).file.rows) = summary_data[f].MasterRows
            /\ IdSet(RowIds(MasterOf(f).file)) = IdSet(ConcatIds(f))

C2_Witness ==
  \E f \in 1..Len(summary_data) :
    /\ summary_data[f].PairsFound = 2
    /\ summary_data[f].MasterRows >= 3
    /\ HasOwnMaster(f)
    /\ "PART_NO" \in MasterOf(f).file.columns
    /\ \E n \in 1..Len(MasterOf(f).file.rows) : MasterOf(f).file.rows[n].PART_NO = << >>

\* C3: in a persisted master with a PART_NO column the rows are in ascending
\* order of the numeric value of the PART_NO they had in the upload, rows whose
\* PART_NO is no number come last, and the persisted cell is that number.
C3_MasterSorted ==
  \A name \in DOMAIN clean_output :
    LET file == clean_output[name].file
        cell(n) == SrcCell(file.rows[n].ROW)
    IN "PART_NO" \in file.columns =>
         /\ \A a, b \in 1..Len(file.rows) :
              a < b => /\ ~(~IsNumText(cell(a)) /\ IsNumText(cell(b)))
                       /\ (IsNumText(cell(a)) /\ IsNumText(cell(b)))
                            => ParseNum(cell(a)) <= ParseNum(cell(b))
         /\ \A n \in 1..Len(file.rows) :
              IF IsNumText(cell(n))
              THEN /\ IsNumText(file.rows[n].PART_NO)
                   /\ ParseNum(file.rows[n].PART_NO) = ParseNum(cell(n))
              ELSE file.rows[n].PART_NO = << >>
         /\ uploaded_zip = ExampleArchive =>
              [n \in 1..Len(file.rows) |-> file.rows[n].PART_NO]
                = << <<"1">>, <<"2">>, <<"3">>, <<"4">>, <<"5">> >>

\* a master whose first uploaded row was no number and whose "10" came before
\* its "2": the sort moved both
C3_Witness ==
  \E f \in 1..Len(summary_data) :
    /\ HasOwnMaster(f)
    /\ "PART_NO" \in MasterOf(f).file.columns
    /\ Len(ConcatIds(f)) >= 3
    /\ SrcCell(ConcatIds(f)[1]) = <<"x">>
    /\ SrcCell(ConcatIds(f)[2]) = <<"1", "0">>
    /\ SrcCell(ConcatIds(f)[3]) = <<"2">>
    /\ RowIds(MasterOf(f).file) # ConcatIds(f)

\* C4: after a completed run the archive holds, for every folder with a merged
\* pair, the file <folder_name>_compiled_file.csv with that folder's own rows,
\* and the summary's total of master rows is the number of rows in the archive.
C4_OneMasterPerDirectory ==
  pc = "done" =>
    /\ \A f \in 1..Len(file_map) :
         ConcatIds(f) # << >> =>
           /\ ArchiveName(basename(file_map[f].root)) \in DOMAIN zip_buffer
           /\ IdSet(RowIds(zip_buffer[ArchiveName(basename(file_map[f].root))]))
                = IdSet(ConcatIds(f))
    /\ metrics.grand_total_rows = ZipRows(DOMAIN zip_buffer)

\* C5: a folder with candidate files but no complete pair gets the summary row
\* (folder, 0, 0), writes no master, and no row of it reaches the archive.
C5_NoPairNoMaster ==
  \A f \in 1..Len(summary_data) :
    (\A b \in 1..Len(file_map[f].bases) : ~IsPair(file_map[f].bases[b].paths)) =>
      /\ summary_data[f] = [Folder |-> basename(file_map[f].root), PairsFound |-> 0,
                            MasterRows |-> 0]
      /\ \A name \in DOMAIN clean_output : clean_output[name].src # file_map[f].root
      /\ \A a \in DOMAIN zip_buffer : \A n \in 1..Len(zip_buffer[a].rows) :
           <<temp_dir>> \o zip_buffer[a].rows[n].ROW[1] # file_map[f].root

\* a finished run with such a folder next to a folder that has a master
C5_Witness ==
  /\ pc = "done"
  /\ metrics.folders_with_pairs > 0
  /\ zip_buffer # NoFiles
  /\ \E f \in 1..Len(summary_data) :
       /\ \A b \in 1..Len(file_map[f].bases) : ~IsPair(file_map[f].bases[b].paths)
       /\ \E g \in 1..Len(summary_data) : g < f /\ summary_data[g].MasterRows > 0

\* C6: a complete pair with an unparseable file is skipped with a warning and
\* leaves no compiled file; every other complete pair is compiled and is in its
\* folder's master; the run goes on through every folder.
C6_FailedPairSkipped ==
  /\ \A f \in 1..Len(file_map) : \A b \in 1..Len(file_map[f].bases) :
       LET e == file_map[f].bases[b]
           cp == CompiledPath(file_map[f].root, e.base)
       IN (Scanned /\ Processed(f, b)) =>
            /\ FailedPair(e) =>
                 /\ cp \notin DOMAIN disk
                 /\ Msg("could_not_process_pair", file_map[f].root, e.base) \in log
            /\ GoodPair(e) =>
                 /\ OnDisk => cp \in DOMAIN disk
                 /\ Msg("could_not_process_pair", file_map[f].root, e.base) \notin log
  /\ \A f \in 1..Len(summary_data) :
       /\ summary_data[f].MasterRows = Len(ConcatIds(f))
       /\ HasOwnMaster(f) => RowIds(MasterOf(f).file) \in Perms(IdSet(ConcatIds(f)))
       /\ (OnDisk /\ ConcatIds(f) # << >>) => basename(file_map[f].root) \in DOMAIN clean_output
  /\ (\E m \in log : m.kind = "could_not_process_pair") => pc \notin {"crashed", "stopped"}
  /\ Finished => Len(summary_data) = Len(file_map)

\* a finished run in which a folder had a failed pair and a good one, and a
\* later folder has its master
C6_Witness ==
  /\ pc = "download"
  /\ \E f \in 1..Len(file_map) :
       /\ \E b \in 1..Len(file_map[f].bases) : FailedPair(file_map[f].bases[b])
       /\ \E b \in 1..Len(file_map[f].bases) : GoodPair(file_map[f].bases[b])
       /\ HasOwnMaster(f)
       /\ \E g \in 1..Len(file_map) : g > f /\ HasOwnMaster(g) /\ summary_data[g].MasterRows > 0

\* C7: only an extraction failure ends a run early; a run whose zip was
\* extracted is never ended by an exception.
C7_OnlyExtractionAborts == pc \in {"stopped", "crashed"} => ~uploaded_zip.valid

\* C8: with a single top-level directory wrapping the tree, every folder is
\* reported under the name it has when the tree is extracted without wrapper,
\* that is with the wrapped folder's path directly below temp_dir.
C8_WrapperTransparent ==
  (pc = "done" /\ base_path # <<temp_dir>>) =>
    \A f \in 1..Len(summary_data) :
      summary_data[f].Folder =
        basename(<<temp_dir>> \o SubSeq(file_map[f].root, 3, Len(file_map[f].root)))

\* C9: the sort is stable: master rows with equal PART_NO numbers, and rows
\* whose PART_NO is no number, keep their concatenation order.
C9_SortStable ==
  \A f \in 1..Len(summary_data) :
    (HasOwnMaster(f) /\ "PART_NO" \in MasterOf(f).file.columns) =>
      LET ids == RowIds(MasterOf(f).file)
      IN \A a, b \in 1..Len(ids) :
           (a < b /\ (IF IsNumText(SrcCell(ids[a]))
                      THEN IsNumText(SrcCell(ids[b]))
                           /\ ParseNum(SrcCell(ids[a])) = ParseNum(SrcCell(ids[b]))
                      ELSE ~IsNumText(SrcCell(ids[b]))))
             => Position(ConcatIds(f), ids[a]) < Position(ConcatIds(f), ids[b])

\* C10: no folder's aggregate step overwrites a master written for another
\* folder.
C10_NoOverwrite ==
  [][\A name \in DOMAIN clean_output :
       name \in DOMAIN clean_output' => clean_output'[name].src = clean_output[name].src]_vars

====
